---- MODULE Spec2Model ----
(***************************************************************************)
(* Hash-set engines of hash-pls-simulation (RobinHood, Cuckoo,             *)
(* ThreeAryCuckoo, BlockedCuckoo, TriaProb) and their MetaMap sidecar,     *)
(* as state machines.  One specification per engine: the engine's struct   *)
(* fields are the variables, its public operations are the actions, and    *)
(* the keyed hashers are drawn once, at construction.                      *)
(***************************************************************************)
EXTENDS Integers, Sequences, FiniteSets, TLC

VARIABLES
    hashers,   \* hashers[i][key]: the value of self.hashers[i].hash_one(key)
    buckets,   \* the engine's bucket vector (blocks, for BlockedCuckoo)
    meta,      \* the MetaMap: [bits, bitvec]
    len,       \* the engine's len field
    live,      \* reference set: keys whose last completed call was an insert
    last,      \* the last call and what it returned
    degraded,  \* some insert has returned completed = false
    status     \* "ok", "panic" (the process aborted) or "hang" (a call never returns)

vars == <<hashers, buckets, meta, len, live, last, degraded, status>>

(***************************************************************************)
(* Bounds of the model.                                                    *)
(***************************************************************************)
\* keys are 1..MaxKey (u64 in the source)
MaxKey == 3
\* number of buckets of Cuckoo, ThreeAryCuckoo and RobinHood
Capacity == 4
\* width of a hash value in bits (u64 in the source)
HashWidth == 8
\* calls that raise len are not started once len has reached MaxLen
MaxLen == 3
\* the capacity of a table that fewer keys than MaxKey fill
SmallCapacity == 2
\* a TriaProb has 2^TriaLog2Capacity buckets
TriaLog2Capacity == 2
\* a TriaProb that fewer keys than MaxKey fill has 2^TriaSmallLog2Capacity
TriaSmallLog2Capacity == 1
\* slots of a block of a BlockedCuckoo (107 in the source) and its blocks
BUCKET_PER_BLOCK == 2
BlockedBlocks == 2
\* blocks of a BlockedCuckoo in which a key has a block that is not its own
BlockedMoreBlocks == 3
\* BlockedCuckoo::insert is not started once len has reached BlockedMaxLen
BlockedMaxLen == 5

\* buckets of a MetaMap that is driven on its own
MetaBuckets == 2
\* probe sequence lengths handed to set_full are 1..MaxPsl
MaxPsl == 3

\* KeySet::push is not called once max has reached MaxPush
MaxPush == 12

Keys == 1..MaxKey
None == 0
MetaWidths == {0, 1, 2, 4, 8}

Pow2(n) == 2 ^ n
Min(a, b) == IF a < b THEN a ELSE b

\* bit i (Msb0: 0 is the most significant) of the w-bit value v
BitMsb0(v, w, i) == ((v \div Pow2(w - 1 - i)) % 2) = 1

(***************************************************************************)
(* MetaMap (meta_map.rs).  A MetaMap is [bits, bitvec], bitvec a function  *)
(* from 0 .. buckets*bits-1 to BOOLEAN.                                    *)
(***************************************************************************)
Hash(h) == [kind |-> "Hash", v |-> h]
Psl(p) == [kind |-> "Psl", v |-> p]

MetaMap_new(n_buckets, bits_per_bucket) ==
    [bits |-> bits_per_bucket,
     bitvec |-> [i \in 0..(n_buckets * bits_per_bucket - 1) |-> FALSE]]

\* the payload bits without the clamp of the probe sequence length
PayloadBits_unclamped(metadata, bits_remaining) ==
    IF metadata.kind = "Hash"
    THEN [j \in 0..(bits_remaining - 1) |-> BitMsb0(metadata.v, HashWidth, j)]
    ELSE [j \in 0..(bits_remaining - 1) |-> BitMsb0(metadata.v - 1, bits_remaining, j)]

\* the payload bits set_full writes after the leading bit, as a function of
\* the offset 0 .. bits_remaining-1
PayloadBits(metadata, bits_remaining) ==
    IF metadata.kind = "Hash"
    THEN [j \in 0..(bits_remaining - 1) |-> BitMsb0(metadata.v, HashWidth, j)]
    ELSE LET truncated == Min(metadata.v, Pow2(bits_remaining)) - 1
         IN  [j \in 0..(bits_remaining - 1) |-> BitMsb0(truncated, bits_remaining, j)]

\* bitvec with bits from .. from+n-1 overwritten by payload[0 .. n-1]
RECURSIVE WriteBits(_, _, _, _)
WriteBits(bitvec, from, payload, n) ==
    IF n = 0 THEN bitvec
    ELSE [WriteBits(bitvec, from, payload, n - 1) EXCEPT ![from + n - 1] = payload[n - 1]]

set_full(m, bucket, metadata) ==
    IF m.bits = 0 THEN m
    ELSE IF m.bits = 1 THEN [m EXCEPT !.bitvec[bucket] = TRUE]
    ELSE LET bits_remaining == m.bits - 1
             start == bucket * m.bits
             occupied == [m.bitvec EXCEPT ![start] = TRUE]
         IN  [m EXCEPT !.bitvec =
                WriteBits(occupied, start + 1,
                          PayloadBits(metadata, bits_remaining), bits_remaining)]

\* set_empty clearing the leading bit of the bucket only
set_empty_leading_bit(m, bucket) ==
    IF m.bits = 0 THEN m
    ELSE [m EXCEPT !.bitvec[bucket * m.bits] = FALSE]

\* set_empty clearing the bits of every bucket
set_empty_whole_map(m, bucket) ==
    [m EXCEPT !.bitvec = [i \in DOMAIN m.bitvec |-> FALSE]]

set_empty(m, bucket) ==
    IF m.bits = 0 THEN m
    ELSE IF m.bits = 1 THEN [m EXCEPT !.bitvec[bucket] = FALSE]
    ELSE [m EXCEPT !.bitvec =
            WriteBits(m.bitvec, bucket * m.bits,
                      [i \in 0..(m.bits - 1) |-> FALSE], m.bits)]

\* a set_tombstone that sets every bit of the bucket
set_tombstone_all_ones(m, bucket) ==
    IF m.bits = 0 THEN m
    ELSE [m EXCEPT !.bitvec =
            WriteBits(m.bitvec, bucket * m.bits,
                      [i \in 0..(m.bits - 1) |-> TRUE], m.bits)]

set_tombstone(m, bucket) ==
    IF m.bits = 0 THEN m
    ELSE IF m.bits = 1 THEN [m EXCEPT !.bitvec[bucket] = TRUE]
    ELSE [m EXCEPT !.bitvec =
            WriteBits(m.bitvec, bucket * m.bits,
                      [i \in 0..(m.bits - 1) |-> (i >= 1)], m.bits)]

hint_empty(m, bucket) ==
    IF m.bits = 0 THEN FALSE
    ELSE IF m.bits = 1 THEN ~m.bitvec[bucket]
    ELSE LET start == bucket * m.bits
             end == start + m.bits
         IN  \A i \in start..(end - 1) : ~m.bitvec[i]

hint_tombstone(m, bucket) ==
    IF m.bits <= 1 THEN FALSE
    ELSE LET start == bucket * m.bits
             end == start + m.bits
         IN  ~m.bitvec[start] /\ \A i \in (start + 1)..(end - 1) : m.bitvec[i]

\* bitslice.load::<usize>() of bitvec[from .. from+n): the first bit is the
\* most significant
RECURSIVE LoadBits(_, _, _)
LoadBits(bitvec, from, n) ==
    IF n = 0 THEN 0
    ELSE 2 * LoadBits(bitvec, from, n - 1) + (IF bitvec[from + n - 1] THEN 1 ELSE 0)

NoHint == [kind |-> "None", v |-> 0]
Exact(p) == [kind |-> "Exact", v |-> p]
AtLeast(p) == [kind |-> "AtLeast", v |-> p]

\* a hint_psl that reports AtLeast(2) for every full bucket of a one-bit map
hint_psl_at_least_2(m, bucket) ==
    IF m.bits = 1 /\ m.bitvec[bucket] THEN AtLeast(2) ELSE NoHint

hint_psl(m, bucket) ==
    IF m.bits = 0 THEN NoHint
    ELSE IF m.bits = 1
    THEN (IF m.bitvec[bucket] THEN AtLeast(1) ELSE NoHint)
    ELSE LET start == bucket * m.bits
             end == start + m.bits
         IN  IF m.bitvec[start]
             THEN IF \A i \in (start + 1)..(end - 1) : m.bitvec[i]
                  THEN AtLeast(Pow2(m.bits - 1))
                  ELSE Exact(LoadBits(m.bitvec, start + 1, m.bits - 1) + 1)
             ELSE NoHint

\* hint_not_match comparing the fingerprint with the low bits of the hash
hint_not_match_low_bits(m, bucket, raw_hash) ==
    IF m.bits = 0 THEN FALSE
    ELSE IF m.bits = 1 THEN ~m.bitvec[bucket]
    ELSE LET bits_remaining == m.bits - 1
             start == bucket * m.bits
         IN  ~m.bitvec[start]
             \/ \E j \in 0..(bits_remaining - 1) :
                    m.bitvec[start + 1 + j]
                        # BitMsb0(raw_hash, HashWidth, HashWidth - bits_remaining + j)

hint_not_match(m, bucket, raw_hash) ==
    IF m.bits = 0 THEN FALSE
    ELSE IF m.bits = 1 THEN ~m.bitvec[bucket]
    ELSE LET bits_remaining == m.bits - 1
             start == bucket * m.bits
         IN  ~m.bitvec[start]
             \/ \E j \in 0..(bits_remaining - 1) :
                    m.bitvec[start + 1 + j] # BitMsb0(raw_hash, HashWidth, j)

(***************************************************************************)
(* Shared shapes.                                                          *)
(***************************************************************************)
hash_one(i, key) == hashers[i][key]

\* the struct an operation works on
Self == [buckets |-> buckets, meta |-> meta, len |-> len]

\* The Update a call starts with.  Next to the three fields of the source it
\* carries two counters the source does not have: bucket_reads and
\* bucket_writes count the reads and writes of the bucket array the call has
\* performed (kept by Cuckoo::insert and by TriaProb).
NewUpdate(w) ==
    [total_probes |-> 0, total_writes |-> w, completed |-> TRUE,
     bucket_reads |-> 0, bucket_writes |-> 0]

\* the call has read, has written a bucket
HasRead(update) == [update EXCEPT !.bucket_reads = @ + 1]
HasWritten(update) == [update EXCEPT !.bucket_writes = @ + 1]

\* the record of the last insert or remove: the operation, its key, whether
\* some bucket held the key when it was called, and the completed flag it
\* returned
NoCall == [op |-> "new", key |-> 0, present |-> FALSE, completed |-> TRUE]

(***************************************************************************)
(* Cuckoo (cuckoo.rs).                                                     *)
(***************************************************************************)
Cuckoo_HASHER_COUNT == 5
MAX_CHAIN == 128

Cuckoo_new(capacity, meta_bits) ==
    [buckets |-> [b \in 0..(capacity - 1) |-> None],
     meta |-> MetaMap_new(capacity, meta_bits),
     len |-> 0]

\* the `while bucket_b == bucket_a` loop, entered with bucket_b = bucket_a;
\* -1 when self.hashers[cur_hasher] indexes past the vector (a panic)
RECURSIVE Cuckoo_rehash(_, _, _)
Cuckoo_rehash(key, bucket_a, cur_hasher) ==
    LET next_hasher == cur_hasher + 1
    IN  IF next_hasher >= Cuckoo_HASHER_COUNT THEN -1
        ELSE LET bucket_b == hash_one(next_hasher, key) % Capacity
             IN  IF bucket_b = bucket_a
                 THEN Cuckoo_rehash(key, bucket_a, next_hasher)
                 ELSE bucket_b

Cuckoo_buckets(key) ==
    LET hash_a == hash_one(0, key)
        bucket_a == hash_a % Capacity
        bucket_b == Cuckoo_rehash(key, bucket_a, 0)
    IN  [panic |-> bucket_b = -1, hash |-> hash_a, a |-> bucket_a, b |-> bucket_b]

Cuckoo_set_bucket(self, bucket, key, hash) ==
    [self EXCEPT !.buckets[bucket] = key,
                 !.meta = set_full(self.meta, bucket, Hash(hash))]

\* a clear_bucket that leaves the metadata of the bucket as it was
Cuckoo_clear_bucket_stale_meta(self, bucket) ==
    [self EXCEPT !.buckets[bucket] = None]

Cuckoo_clear_bucket(self, bucket) ==
    [self EXCEPT !.buckets[bucket] = None,
                 !.meta = set_empty(self.meta, bucket)]

\* a probe that reads bucket A only
Cuckoo_probe_bucket_a(self, key) ==
    LET info == Cuckoo_buckets(key)
        read_a == ~hint_not_match(self.meta, info.a, info.hash)
        probes_a == IF read_a THEN 1 ELSE 0
    IN  IF info.panic THEN [panic |-> TRUE, contained |-> FALSE, probes |-> 0]
        ELSE [panic |-> FALSE, contained |-> read_a /\ self.buckets[info.a] = key,
              probes |-> probes_a]

Cuckoo_probe(self, key) ==
    LET info == Cuckoo_buckets(key)
        read_a == ~hint_not_match(self.meta, info.a, info.hash)
        probes_a == IF read_a THEN 1 ELSE 0
        read_b == ~hint_not_match(self.meta, info.b, info.hash)
    IN  IF info.panic THEN [panic |-> TRUE, contained |-> FALSE, probes |-> 0]
        ELSE IF read_a /\ self.buckets[info.a] = key
        THEN [panic |-> FALSE, contained |-> TRUE, probes |-> probes_a]
        ELSE IF read_b /\ self.buckets[info.b] = key
        THEN [panic |-> FALSE, contained |-> TRUE, probes |-> probes_a + 1]
        ELSE [panic |-> FALSE, contained |-> FALSE,
              probes |-> probes_a + (IF read_b THEN 1 ELSE 0)]

AddWrite(update, active_key, key) ==
    IF active_key # key
    THEN [update EXCEPT !.total_writes = @ + 1]
    ELSE update

\* The variables of the `for _ in 0..MAX_CHAIN` loop of insert; done when the
\* body has returned, panic when it has panicked.
ChainState(self, key, active_key, use, key_info, update) ==
    [self |-> self, key |-> key, active_key |-> active_key, use |-> use,
     key_info |-> key_info, update |-> update, done |-> FALSE, panic |-> FALSE]

Return(st, self, update) == [st EXCEPT !.self = self, !.update = update, !.done = TRUE]
Abort(st) == [st EXCEPT !.done = TRUE, !.panic = TRUE]

\* a pass that keeps the buckets of the inserted key for the evicted key
Cuckoo_insert_step_stale_info(st) ==
    LET self == st.self
        key == st.key
        active_key == st.active_key
        hash == st.key_info.hash
        target_bucket == IF st.use THEN st.key_info.a ELSE st.key_info.b
        probed == [st.update EXCEPT !.total_probes = @ + 1]
        k == self.buckets[target_bucket]
        written == Cuckoo_set_bucket(self, target_bucket, active_key, hash)
    IN  IF hint_empty(self.meta, target_bucket)
        THEN Return(st, written, HasWritten(AddWrite(st.update, active_key, key)))
        ELSE IF k = None
        THEN Return(st, written, HasWritten(AddWrite(probed, active_key, key)))
        ELSE IF k = active_key
        THEN IF active_key # key
             THEN Abort(st)
             ELSE Return(st, [self EXCEPT !.len = @ - 1], probed)
        ELSE [st EXCEPT !.self = written,
                        !.update = HasWritten([probed EXCEPT !.total_writes = @ + 1]),
                        !.use = ~st.use,
                        !.active_key = k]

\* one pass through the body of the loop of Cuckoo::insert
Cuckoo_insert_step(st) ==
    LET self == st.self
        key == st.key
        active_key == st.active_key
        hash == st.key_info.hash
        target_bucket == IF st.use THEN st.key_info.a ELSE st.key_info.b
        probed == [st.update EXCEPT !.total_probes = @ + 1]
        k == self.buckets[target_bucket]
        written == Cuckoo_set_bucket(self, target_bucket, active_key, hash)
        next_info == Cuckoo_buckets(k)
    IN  IF hint_empty(self.meta, target_bucket)
        THEN Return(st, written, HasWritten(AddWrite(st.update, active_key, key)))
        ELSE IF k = None
        THEN Return(st, written, HasWritten(AddWrite(probed, active_key, key)))
        ELSE IF k = active_key
        THEN IF active_key # key
             THEN Abort(st)     \* assert_eq!(active_key, key)
             ELSE Return(st, [self EXCEPT !.len = @ - 1], probed)
        ELSE IF next_info.panic
        THEN Abort(st)
        ELSE [st EXCEPT !.self = written,
                        !.update = HasWritten([probed EXCEPT !.total_writes = @ + 1]),
                        !.key_info = next_info,
                        !.use = (next_info.b = target_bucket),
                        !.active_key = k]

\* a loop that gives up after its first pass
Cuckoo_insert_loop_once(st, n) ==
    IF st.done \/ n = 0 THEN st ELSE Cuckoo_insert_step(st)

\* n passes through the loop body, stopping at a return or a panic (the
\* passes are split in halves to keep the evaluation shallow)
RECURSIVE Cuckoo_insert_loop(_, _)
Cuckoo_insert_loop(st, n) ==
    IF st.done \/ n = 0 THEN st
    ELSE IF n = 1 THEN Cuckoo_insert_step(st)
    ELSE Cuckoo_insert_loop(Cuckoo_insert_loop(st, n \div 2), n - (n \div 2))

\* what a call returns: the struct, the Update record, whether it panicked
Ret(self, update, panic) == [self |-> self, update |-> update, panic |-> panic]

\* the return of insert after its loop: completed = false when the loop ran out
AfterChain(st) ==
    Ret(st.self,
        IF st.done THEN st.update ELSE [st.update EXCEPT !.completed = FALSE],
        st.panic)

\* an insert without the test for presence at bucket B
Cuckoo_insert_untested(self, key) ==
    LET update == NewUpdate(1)
        key_info == Cuckoo_buckets(key)
    IN  IF key_info.panic THEN Ret(self, update, TRUE)
        ELSE AfterChain(Cuckoo_insert_loop(
                ChainState([self EXCEPT !.len = @ + 1], key, key, TRUE, key_info, update),
                MAX_CHAIN))

Cuckoo_insert(self, key) ==
    LET update == NewUpdate(1)
        key_info == Cuckoo_buckets(key)
        read_b == ~hint_not_match(self.meta, key_info.b, key_info.hash)
        probed == IF read_b THEN [update EXCEPT !.total_probes = @ + 1] ELSE update
    IN  IF key_info.panic THEN Ret(self, update, TRUE)
        ELSE IF read_b /\ self.buckets[key_info.b] = key
        THEN Ret(self, probed, FALSE)
        ELSE AfterChain(Cuckoo_insert_loop(
                ChainState([self EXCEPT !.len = @ + 1], key, key, TRUE, key_info, probed),
                MAX_CHAIN))

Cuckoo_remove(self, key) ==
    LET info == Cuckoo_buckets(key)
        update == NewUpdate(0)
        read_a == ~hint_not_match(self.meta, info.a, info.hash)
        probed_a == IF read_a THEN [update EXCEPT !.total_probes = @ + 1] ELSE update
        read_b == ~hint_not_match(self.meta, info.b, info.hash)
        probed_b == IF read_b THEN [probed_a EXCEPT !.total_probes = @ + 1] ELSE probed_a
    IN  IF info.panic THEN Ret(self, update, TRUE)
        ELSE IF read_a /\ self.buckets[info.a] = key
        THEN Ret(Cuckoo_clear_bucket(self, info.a),
                 [probed_a EXCEPT !.total_writes = @ + 1], FALSE)
        ELSE IF read_b /\ self.buckets[info.b] = key
        THEN Ret(Cuckoo_clear_bucket(self, info.b),
                 [probed_b EXCEPT !.total_writes = @ + 1], FALSE)
        ELSE Ret(self, probed_b, FALSE)

\* a row of hash values: Row(s)[i] is what hasher i returns for one key
Row(s) == [i \in 0..(Len(s) - 1) |-> s[i + 1]]

\* The hashers are drawn at construction: every key gets one of the given
\* rows.  The engines only compare keys for equality, so the assignments are
\* taken up to a permutation of the keys (rows in key order).
Hashers(rows, n) ==
    { [i \in 0..(n - 1) |-> [k \in Keys |-> rows[f[k]][i]]] :
        f \in { g \in [Keys -> 1..Len(rows)] :
                    \A k \in Keys : k + 1 \in Keys => g[k] <= g[k + 1] } }

\* The rows of a Cuckoo (five hashers).  The bucket index is the hash modulo
\* the capacity and the fingerprint is its top bits.
CuckooRows ==
    << Row(<<0, 1, 0, 0, 0>>),       \* a = 0, b = 1
       Row(<<128, 0, 1, 0, 0>>),     \* a = 0, b = 1 after one rehash; top bit differs
       Row(<<4, 2, 0, 0, 0>>),       \* a = 0, b = 2; differs from 0 in the 6th bit only
       Row(<<1, 0, 0, 0, 0>>),       \* a = 1, b = 0
       Row(<<33, 1, 1, 1, 2>>),      \* a = 1, b = 2 after three rehashes
       Row(<<2, 2, 2, 2, 2>>) >>     \* every hasher gives bucket 2

\* the key is held by some bucket
Stored(bs, key) == \E b \in DOMAIN bs : bs[b] = key

Called(op, key, present, completed) ==
    [op |-> op, key |-> key, present |-> present, completed |-> completed]

\* The effect of a call that returned r on the variables: the struct fields,
\* the reference set and the call record.  A panic ends the process.
Commit(op, key, r, new_live) ==
    /\ status' = IF r.panic THEN "panic" ELSE "ok"
    /\ buckets' = IF r.panic THEN buckets ELSE r.self.buckets
    /\ meta' = IF r.panic THEN meta ELSE r.self.meta
    /\ len' = IF r.panic THEN len ELSE r.self.len
    /\ live' = IF r.panic THEN live ELSE new_live
    /\ degraded' = (degraded \/ (op = "insert" /\ ~r.panic /\ ~r.update.completed))
    /\ last' = Called(op, key, Stored(buckets, key), r.update.completed)
    /\ UNCHANGED hashers

\* a probe that returned r: it reads the struct and changes nothing
Observe(key, r) ==
    /\ status' = IF r.panic THEN "panic" ELSE "ok"
    /\ UNCHANGED <<hashers, buckets, meta, len, live, last, degraded>>

\* the state after new(capacity, meta_bits) returned the struct new
Constructed(new) ==
    /\ buckets = new.buckets
    /\ meta = new.meta
    /\ len = new.len
    /\ live = {}
    /\ last = NoCall
    /\ degraded = FALSE
    /\ status = "ok"

CuckooInit ==
    /\ hashers \in Hashers(CuckooRows, Cuckoo_HASHER_COUNT)
    /\ \E meta_bits \in MetaWidths : Constructed(Cuckoo_new(Capacity, meta_bits))

CuckooProbe(key) ==
    /\ status = "ok"
    /\ Observe(key, Cuckoo_probe(Self, key))

CuckooInsert(key) ==
    /\ status = "ok"
    /\ len < MaxLen
    /\ Commit("insert", key, Cuckoo_insert(Self, key), live \cup {key})

CuckooRemove(key) ==
    /\ status = "ok"
    /\ Commit("remove", key, Cuckoo_remove(Self, key), live \ {key})

CuckooNext ==
    \E key \in Keys : CuckooProbe(key) \/ CuckooInsert(key) \/ CuckooRemove(key)

SpecCuckoo == CuckooInit /\ [][CuckooNext]_vars

(***************************************************************************)
(* ThreeAryCuckoo (three_ary_cuckoo.rs).                                   *)
(***************************************************************************)
ThreeAry_HASHER_COUNT == 6

ThreeAry_new(capacity, meta_bits) ==
    [buckets |-> [b \in 0..(capacity - 1) |-> None],
     meta |-> MetaMap_new(capacity, meta_bits),
     len |-> 0]

\* the closure h of buckets
ThreeAry_h(key, h_i) == hash_one(h_i, key) % Capacity

\* a `while bucket == taken...` loop of buckets: the bucket it ends with and
\* the next hasher index, or a panic when h indexes past the hashers
RECURSIVE ThreeAry_rehash(_, _, _, _)
ThreeAry_rehash(key, taken, bucket, hasher_index) ==
    IF bucket \notin taken
    THEN [panic |-> FALSE, bucket |-> bucket, hasher_index |-> hasher_index]
    ELSE IF hasher_index >= ThreeAry_HASHER_COUNT
    THEN [panic |-> TRUE, bucket |-> bucket, hasher_index |-> hasher_index]
    ELSE ThreeAry_rehash(key, taken, ThreeAry_h(key, hasher_index), hasher_index + 1)

\* (hash, [bucket_a, bucket_b, bucket_c]); b[0], b[1], b[2] are the buckets
ThreeAry_buckets(key) ==
    LET hash_a == hash_one(0, key)
        bucket_a == ThreeAry_h(key, 0)
        rb == ThreeAry_rehash(key, {bucket_a}, ThreeAry_h(key, 1), 3)
        rc == ThreeAry_rehash(key, {bucket_a, rb.bucket}, ThreeAry_h(key, 2),
                              rb.hasher_index)
    IN  IF rb.panic \/ rc.panic
        THEN [panic |-> TRUE, hash |-> hash_a, b |-> <<>>]
        ELSE [panic |-> FALSE, hash |-> hash_a,
              b |-> [i \in 0..2 |-> IF i = 0 THEN bucket_a
                                    ELSE IF i = 1 THEN rb.bucket ELSE rc.bucket]]

ThreeAry_set_bucket(self, bucket, key, hash) ==
    [self EXCEPT !.buckets[bucket] = key,
                 !.meta = set_full(self.meta, bucket, Hash(hash))]

ThreeAry_clear_bucket(self, bucket) ==
    [self EXCEPT !.buckets[bucket] = None,
                 !.meta = set_empty(self.meta, bucket)]

\* the three `if !hint_not_match(bucket) { probes += 1; if buckets[read] == key`
\* blocks of probe, insert and remove, from block i on: the index of the
\* block that found the key (3 when none did) and the probes counted.
\* read[i] is the bucket block i reads.
RECURSIVE ThreeAry_find(_, _, _, _, _, _)
ThreeAry_find(self, key, info, read, i, probes) ==
    IF i = 3 THEN [at |-> 3, probes |-> probes]
    ELSE IF ~hint_not_match(self.meta, info.b[i], info.hash)
    THEN IF self.buckets[read[i]] = key
         THEN [at |-> i, probes |-> probes + 1]
         ELSE ThreeAry_find(self, key, info, read, i + 1, probes + 1)
    ELSE ThreeAry_find(self, key, info, read, i + 1, probes)

ThreeAry_probe(self, key) ==
    LET info == ThreeAry_buckets(key)
        f == ThreeAry_find(self, key, info, info.b, 0, 0)
    IN  IF info.panic THEN [panic |-> TRUE, contained |-> FALSE, probes |-> 0]
        ELSE [panic |-> FALSE, contained |-> f.at < 3, probes |-> f.probes]

\* the buckets the presence test of insert reads: the first block tests
\* bucket_a's hint and then reads bucket_b
ThreeAry_insert_reads(info) == [i \in 0..2 |-> IF i = 0 THEN info.b[1] ELSE info.b[i]]

\* `for &bucket_index in &bucket_indices`, from position j of the three
RECURSIVE ThreeAry_place(_, _)
ThreeAry_place(st, j) ==
    IF j = 3 THEN st
    ELSE IF ~st.use[j] THEN ThreeAry_place(st, j + 1)
    ELSE
    LET bucket_index == st.key_info.b[j]
        written == ThreeAry_set_bucket(st.self, bucket_index, st.active_key,
                                       st.key_info.hash)
        probed == [st.update EXCEPT !.total_probes = @ + 1]
    IN  IF hint_empty(st.self.meta, bucket_index)
        THEN Return(st, written, AddWrite(st.update, st.active_key, st.key))
        ELSE IF st.self.meta.bits = 0
        THEN IF st.self.buckets[bucket_index] = None
             THEN Return(st, written, AddWrite(probed, st.active_key, st.key))
             ELSE ThreeAry_place([st EXCEPT !.update = probed], j + 1)
        ELSE ThreeAry_place(st, j + 1)

\* the eviction of the bucket at position evict (rand::thread_rng() picked it)
ThreeAry_evict(st, evict) ==
    LET evict_bucket == st.key_info.b[evict]
        probed == IF st.self.meta.bits > 0
                  THEN [st.update EXCEPT !.total_probes = @ + 1]
                  ELSE st.update
        swap_key == st.self.buckets[evict_bucket]
        next_info == ThreeAry_buckets(swap_key)
    IN  IF swap_key = None THEN Abort(st)              \* unwrap() of None
        ELSE IF next_info.panic THEN Abort(st)
        ELSE [st EXCEPT
                !.self = ThreeAry_set_bucket(st.self, evict_bucket, st.active_key,
                                             st.key_info.hash),
                !.update = [probed EXCEPT !.total_writes = @ + 1],
                !.key_info = next_info,
                !.use = IF evict_bucket = next_info.b[0]
                        THEN [i \in 0..2 |-> i # 0]
                        ELSE IF evict_bucket = next_info.b[1]
                        THEN [i \in 0..2 |-> i # 1]
                        ELSE [i \in 0..2 |-> i # 2],
                !.active_key = swap_key]

\* one pass through the body of the loop of insert: the states it may end in
ThreeAry_insert_step(st) ==
    LET placed == ThreeAry_place(st, 0)
    IN  IF placed.done THEN {placed}
        ELSE {ThreeAry_evict(placed, evict) : evict \in {i \in 0..2 : st.use[i]}}

\* n passes through the loop body from every state of sts
RECURSIVE ThreeAry_insert_loop(_, _)
ThreeAry_insert_loop(sts, n) ==
    IF n = 0 \/ \A st \in sts : st.done THEN sts
    ELSE IF n = 1
    THEN UNION {IF st.done THEN {st} ELSE ThreeAry_insert_step(st) : st \in sts}
    ELSE ThreeAry_insert_loop(ThreeAry_insert_loop(sts, n \div 2), n - (n \div 2))

\* the returns insert may make
ThreeAry_insert(self, key) ==
    LET update == NewUpdate(1)
        key_info == ThreeAry_buckets(key)
        f == ThreeAry_find(self, key, key_info, ThreeAry_insert_reads(key_info), 0, 0)
        probed == [update EXCEPT !.total_probes = f.probes]
        start == ChainState([self EXCEPT !.len = @ + 1], key, key,
                            [i \in 0..2 |-> TRUE], key_info, probed)
    IN  IF key_info.panic THEN {Ret(self, update, TRUE)}
        ELSE IF f.at < 3 THEN {Ret(self, probed, FALSE)}
        ELSE {AfterChain(st) : st \in ThreeAry_insert_loop({start}, MAX_CHAIN)}

ThreeAry_remove(self, key) ==
    LET info == ThreeAry_buckets(key)
        update == NewUpdate(0)
        f == ThreeAry_find(self, key, info, info.b, 0, 0)
        probed == [update EXCEPT !.total_probes = f.probes]
    IN  IF info.panic THEN Ret(self, update, TRUE)
        ELSE IF f.at < 3
        THEN Ret(ThreeAry_clear_bucket(self, info.b[f.at]),
                 [probed EXCEPT !.total_writes = @ + 1], FALSE)
        ELSE Ret(self, probed, FALSE)

\* The rows of a ThreeAryCuckoo (six hashers).
ThreeAryRows ==
    << Row(<<0, 1, 2, 0, 0, 0>>),      \* buckets 0, 1, 2
       Row(<<128, 0, 1, 2, 0, 0>>),    \* buckets 0, 2, 1: b rehashed once
       Row(<<4, 2, 3, 0, 0, 0>>),      \* buckets 0, 2, 3
       Row(<<1, 2, 3, 0, 0, 0>>),      \* buckets 1, 2, 3
       Row(<<33, 0, 0, 1, 1, 3>>),     \* buckets 1, 0, 3: c rehashed three times
       Row(<<2, 2, 2, 2, 2, 2>>) >>    \* every hasher gives bucket 2

ThreeAryInit ==
    /\ hashers \in Hashers(ThreeAryRows, ThreeAry_HASHER_COUNT)
    /\ \E meta_bits \in MetaWidths : Constructed(ThreeAry_new(Capacity, meta_bits))

ThreeAryProbe(key) ==
    /\ status = "ok"
    /\ Observe(key, ThreeAry_probe(Self, key))

ThreeAryInsert(key) ==
    /\ status = "ok"
    /\ len < MaxLen
    /\ \E r \in ThreeAry_insert(Self, key) : Commit("insert", key, r, live \cup {key})

ThreeAryRemove(key) ==
    /\ status = "ok"
    /\ Commit("remove", key, ThreeAry_remove(Self, key), live \ {key})

ThreeAryNext ==
    \E key \in Keys : ThreeAryProbe(key) \/ ThreeAryInsert(key) \/ ThreeAryRemove(key)

SpecThreeAry == ThreeAryInit /\ [][ThreeAryNext]_vars

(***************************************************************************)
(* TriaProb (triangular_probing.rs).  A BucketItem is Empty, Tombstone or  *)
(* the key of a Value.                                                     *)
(***************************************************************************)
Empty == 0
Tombstone == -1
Value(key) == key

TriaCapacity == Pow2(TriaLog2Capacity)
TriaSmallCapacity == Pow2(TriaSmallLog2Capacity)

\* self.buckets.len()
TriaProb_capacity(self) == Cardinality(DOMAIN self.buckets)

TriaProb_new(capacity, meta_bits) ==
    [buckets |-> [b \in 0..(capacity - 1) |-> Empty],
     meta |-> MetaMap_new(capacity, meta_bits),
     len |-> 0]

\* what probe_search and probe_insert return: (Option<usize>, usize), or a
\* failed assertion; reads counts the buckets the loop has read (the source
\* counts them in probes)
Found(index, probes) ==
    [panic |-> FALSE, some |-> TRUE, index |-> index, probes |-> probes, reads |-> probes]
NotFound(probes) ==
    [panic |-> FALSE, some |-> FALSE, index |-> 0, probes |-> probes, reads |-> probes]
AssertFailed == [panic |-> TRUE, some |-> FALSE, index |-> 0, probes |-> 0, reads |-> 0]
\* the return after the loop: (None, self.buckets.len()), having read probes
\* buckets
Exhausted(self, probes) == [NotFound(TriaProb_capacity(self)) EXCEPT !.reads = probes]

\* pass i of the loop of probe_search; offset is the sum of the earlier i
RECURSIVE TriaProb_search_loop(_, _, _, _, _)
TriaProb_search_loop(self, key, i, offset_before, probes) ==
    IF i = TriaProb_capacity(self) THEN Exhausted(self, probes)
    ELSE
    LET hash == hash_one(0, key)
        bucket == hash % TriaProb_capacity(self)
        offset == offset_before + i
        bucket_index == (bucket + offset) % TriaProb_capacity(self)
        item == self.buckets[bucket_index]
    IN  IF hint_empty(self.meta, bucket_index) THEN NotFound(probes)
        ELSE IF ~hint_not_match(self.meta, bucket_index, hash)
        THEN IF item = Value(key) THEN Found(bucket_index, probes + 1)
             ELSE IF item = Empty
             THEN (IF self.meta.bits = 0 THEN NotFound(probes + 1) ELSE AssertFailed)
             ELSE IF item = Tombstone /\ ~(self.meta.bits < 2) THEN AssertFailed
             ELSE TriaProb_search_loop(self, key, i + 1, offset, probes + 1)
        ELSE TriaProb_search_loop(self, key, i + 1, offset, probes)

TriaProb_probe_search(self, key) == TriaProb_search_loop(self, key, 0, 0, 0)

\* a probe_insert that visits the home bucket plus the squares i * i
RECURSIVE TriaProb_insert_loop_squares(_, _, _, _, _)
TriaProb_insert_loop_squares(self, key, i, offset_before, probes) ==
    IF i = TriaProb_capacity(self) THEN Exhausted(self, probes)
    ELSE
    LET hash == hash_one(0, key)
        bucket == hash % TriaProb_capacity(self)
        bucket_index == (bucket + i * i) % TriaProb_capacity(self)
        item == self.buckets[bucket_index]
    IN  IF hint_empty(self.meta, bucket_index) \/ hint_tombstone(self.meta, bucket_index)
        THEN Found(bucket_index, probes)
        ELSE IF ~hint_not_match(self.meta, bucket_index, hash)
        THEN IF item \in {Empty, Tombstone, Value(key)}
             THEN Found(bucket_index, probes + 1)
             ELSE TriaProb_insert_loop_squares(self, key, i + 1, 0, probes + 1)
        ELSE TriaProb_insert_loop_squares(self, key, i + 1, 0, probes)

\* pass i of the loop of probe_insert
RECURSIVE TriaProb_insert_loop(_, _, _, _, _)
TriaProb_insert_loop(self, key, i, offset_before, probes) ==
    IF i = TriaProb_capacity(self) THEN Exhausted(self, probes)
    ELSE
    LET hash == hash_one(0, key)
        bucket == hash % TriaProb_capacity(self)
        offset == offset_before + i
        bucket_index == (bucket + offset) % TriaProb_capacity(self)
        item == self.buckets[bucket_index]
    IN  IF hint_empty(self.meta, bucket_index) \/ hint_tombstone(self.meta, bucket_index)
        THEN Found(bucket_index, probes)
        ELSE IF ~hint_not_match(self.meta, bucket_index, hash)
        THEN IF item = Empty
             THEN (IF self.meta.bits = 0 THEN Found(bucket_index, probes + 1)
                   ELSE AssertFailed)
             ELSE IF item = Tombstone
             THEN (IF self.meta.bits < 2 THEN Found(bucket_index, probes + 1)
                   ELSE AssertFailed)
             ELSE IF item = Value(key) THEN Found(bucket_index, probes + 1)
             ELSE TriaProb_insert_loop(self, key, i + 1, offset, probes + 1)
        ELSE TriaProb_insert_loop(self, key, i + 1, offset, probes)

TriaProb_probe_insert(self, key) == TriaProb_insert_loop(self, key, 0, 0, 0)

\* a set_bucket that gives a removed bucket back as Empty
TriaProb_set_bucket_emptying(self, bucket, item) ==
    [self EXCEPT !.meta = IF item = Tombstone
                          THEN set_empty(self.meta, bucket)
                          ELSE set_full(self.meta, bucket, Hash(hash_one(0, item))),
                 !.buckets[bucket] = IF item = Tombstone THEN Empty ELSE item]

\* set_bucket for Value(key) and for Tombstone (Empty is unreachable!())
TriaProb_set_bucket(self, bucket, item) ==
    [self EXCEPT !.meta = IF item = Tombstone
                          THEN set_tombstone(self.meta, bucket)
                          ELSE set_full(self.meta, bucket, Hash(hash_one(0, item))),
                 !.buckets[bucket] = item]

TriaProb_probe(self, key) ==
    LET r == TriaProb_probe_search(self, key)
    IN  [panic |-> r.panic, contained |-> r.some, probes |-> r.probes, reads |-> r.reads]

TriaProb_insert(self, key) ==
    LET r == TriaProb_probe_insert(self, key)
        update == [NewUpdate(1) EXCEPT !.total_probes = r.probes, !.bucket_reads = r.reads]
    IN  IF r.panic THEN Ret(self, NewUpdate(1), TRUE)
        ELSE IF ~r.some THEN Ret(self, [update EXCEPT !.completed = FALSE], FALSE)
        ELSE Ret(TriaProb_set_bucket([self EXCEPT !.len = @ + 1], r.index, Value(key)),
                 HasWritten(update), FALSE)

TriaProb_remove(self, key) ==
    LET r == TriaProb_probe_search(self, key)
        update == [NewUpdate(1) EXCEPT !.bucket_reads = r.reads]
    IN  IF r.panic THEN Ret(self, update, TRUE)
        ELSE IF ~r.some
        THEN Ret(self, [update EXCEPT !.completed = FALSE, !.total_probes = r.probes],
                 FALSE)
        ELSE Ret(TriaProb_set_bucket([self EXCEPT !.len = @ - 1], r.index, Tombstone),
                 HasWritten(update), FALSE)

\* The rows of a TriaProb (one hasher).
TriaProbRows ==
    << Row(<<0>>),      \* home 0
       Row(<<128>>),    \* home 0, top bit differs
       Row(<<4>>),      \* home 0, differs from 0 in the 6th bit only
       Row(<<1>>) >>    \* home 1

TriaProbInit ==
    /\ hashers \in Hashers(TriaProbRows, 1)
    /\ \E capacity \in {TriaSmallCapacity, TriaCapacity} : \E meta_bits \in MetaWidths :
            Constructed(TriaProb_new(capacity, meta_bits))

TriaProbProbe(key) ==
    /\ status = "ok"
    /\ Observe(key, TriaProb_probe(Self, key))

TriaProbInsert(key) ==
    /\ status = "ok"
    /\ len < MaxLen
    /\ LET r == TriaProb_insert(Self, key)
       IN  Commit("insert", key, r,
                  IF r.update.completed THEN live \cup {key} ELSE live)

TriaProbRemove(key) ==
    /\ status = "ok"
    /\ Commit("remove", key, TriaProb_remove(Self, key), live \ {key})

TriaProbNext ==
    \E key \in Keys : TriaProbProbe(key) \/ TriaProbInsert(key) \/ TriaProbRemove(key)

SpecTriaProb == TriaProbInit /\ [][TriaProbNext]_vars

(***************************************************************************)
(* BlockedCuckoo (blocked_cuckoo.rs).  The variable buckets holds the      *)
(* blocks field: blocks[block][slot].  There is no MetaMap.                *)
(***************************************************************************)
Blocked_HASHER_COUNT == 5

BlockedCuckoo_new(capacity) ==
    LET n_blocks == capacity \div BUCKET_PER_BLOCK
    IN  [blocks |-> [b \in 0..(n_blocks - 1) |->
                        [i \in 0..(BUCKET_PER_BLOCK - 1) |-> None]],
         len |-> 0]

BlockedLen(self) == Cardinality(DOMAIN self.blocks)

\* the `while block_b == block_a` loop of blocks; -1 for the index panic
RECURSIVE Blocked_rehash(_, _, _, _)
Blocked_rehash(self, key, block_a, cur_hasher) ==
    LET next_hasher == cur_hasher + 1
    IN  IF next_hasher >= Blocked_HASHER_COUNT THEN -1
        ELSE LET block_b == hash_one(next_hasher, key) % BlockedLen(self)
             IN  IF block_b = block_a
                 THEN Blocked_rehash(self, key, block_a, next_hasher)
                 ELSE block_b

Blocked_blocks(self, key) ==
    LET block_a == hash_one(0, key) % BlockedLen(self)
        block_b == Blocked_rehash(self, key, block_a, 0)
    IN  [panic |-> block_b = -1, a |-> block_a, b |-> block_b]

\* the loop of try_insert from slot i: Ok with the block written, or Err
RECURSIVE Blocked_try_insert_from(_, _, _, _)
Blocked_try_insert_from(self, block, key, i) ==
    IF i = BUCKET_PER_BLOCK THEN [ok |-> FALSE, self |-> self]
    ELSE IF self.blocks[block][i] = None
    THEN [ok |-> TRUE, self |-> [self EXCEPT !.blocks[block][i] = key]]
    ELSE IF self.blocks[block][i] = key THEN [ok |-> TRUE, self |-> self]
    ELSE Blocked_try_insert_from(self, block, key, i + 1)

Blocked_try_insert(self, block, key) == Blocked_try_insert_from(self, block, key, 0)

\* the index of the element, -1 for None
RECURSIVE Blocked_search_from(_, _, _, _)
Blocked_search_from(self, block, key, index) ==
    IF index = BUCKET_PER_BLOCK THEN -1
    ELSE IF self.blocks[block][index] = key THEN index
    ELSE Blocked_search_from(self, block, key, index + 1)

Blocked_search(self, block, key) == Blocked_search_from(self, block, key, 0)

Blocked_try_remove(self, block, key) ==
    LET pos == Blocked_search(self, block, key)
    IN  IF pos # -1
        THEN [some |-> TRUE, self |-> [self EXCEPT !.blocks[block][pos] = None]]
        ELSE [some |-> FALSE, self |-> self]

Blocked_probe(self, key) ==
    LET bl == Blocked_blocks(self, key)
    IN  IF bl.panic THEN [panic |-> TRUE, contained |-> FALSE, probes |-> 0]
        ELSE IF Blocked_search(self, bl.a, key) # -1
        THEN [panic |-> FALSE, contained |-> TRUE, probes |-> 1]
        ELSE IF Blocked_search(self, bl.b, key) # -1
        THEN [panic |-> FALSE, contained |-> TRUE, probes |-> 2]
        ELSE [panic |-> FALSE, contained |-> FALSE, probes |-> 2]

\* the variables of the eviction loop of insert
BlockedChain(self, active_key, target_block, update) ==
    [self |-> self, active_key |-> active_key, target_block |-> target_block,
     update |-> update, done |-> FALSE, panic |-> FALSE]

\* a pass that moves the evicted key to the block after the target block
Blocked_evict_next_block(st, random_index) ==
    LET swap_key == st.self.blocks[st.target_block][random_index]
        evicted == [st.self EXCEPT !.blocks[st.target_block][random_index] = st.active_key]
        bl == Blocked_blocks(st.self, swap_key)
        target_block == (st.target_block + 1) % BlockedLen(st.self)
        update == [st.update EXCEPT !.total_writes = @ + 1, !.total_probes = @ + 1]
        tried == Blocked_try_insert(evicted, target_block, swap_key)
    IN  IF swap_key = None THEN Abort(st)
        ELSE IF bl.panic THEN Abort(st)
        ELSE IF tried.ok THEN Return(st, tried.self, update)
        ELSE [st EXCEPT !.self = evicted, !.target_block = target_block,
                        !.update = update, !.active_key = swap_key]

\* one pass through the loop body, rng.gen_range having given random_index
Blocked_evict(st, random_index) ==
    LET swap_key == st.self.blocks[st.target_block][random_index]
        evicted == [st.self EXCEPT !.blocks[st.target_block][random_index] = st.active_key]
        bl == Blocked_blocks(st.self, swap_key)
        target_block == IF bl.a = st.target_block THEN bl.b ELSE bl.a
        update == [st.update EXCEPT !.total_writes = @ + 1, !.total_probes = @ + 1]
        tried == Blocked_try_insert(evicted, target_block, swap_key)
    IN  IF swap_key = None THEN Abort(st)      \* expect("insert fail, ...")
        ELSE IF bl.panic THEN Abort(st)
        ELSE IF tried.ok THEN Return(st, tried.self, update)
        ELSE [st EXCEPT !.self = evicted, !.target_block = target_block,
                        !.update = update, !.active_key = swap_key]

Blocked_insert_step(st) ==
    {Blocked_evict(st, random_index) : random_index \in 0..(BUCKET_PER_BLOCK - 1)}

\* n passes through the loop body from every state of sts
RECURSIVE Blocked_insert_loop(_, _)
Blocked_insert_loop(sts, n) ==
    IF n = 0 \/ \A st \in sts : st.done THEN sts
    ELSE IF n = 1
    THEN UNION {IF st.done THEN {st} ELSE Blocked_insert_step(st) : st \in sts}
    ELSE Blocked_insert_loop(Blocked_insert_loop(sts, n \div 2), n - (n \div 2))

\* the returns insert may make
Blocked_insert(self, key) ==
    LET update == NewUpdate(1)
        counted == [self EXCEPT !.len = @ + 1]
        bl == Blocked_blocks(self, key)
        probed_a == [update EXCEPT !.total_probes = @ + 1]
        tried_a == Blocked_try_insert(counted, bl.a, key)
        probed_b == [probed_a EXCEPT !.total_probes = @ + 1]
        tried_b == Blocked_try_insert(counted, bl.b, key)
    IN  IF bl.panic THEN {Ret(self, update, TRUE)}
        ELSE IF tried_a.ok THEN {Ret(tried_a.self, probed_a, FALSE)}
        ELSE IF tried_b.ok THEN {Ret(tried_b.self, probed_b, FALSE)}
        ELSE {AfterChain(st) :
                st \in Blocked_insert_loop({BlockedChain(counted, key, bl.a, probed_b)},
                                           MAX_CHAIN)}

Blocked_remove(self, key) ==
    LET bl == Blocked_blocks(self, key)
        update == [NewUpdate(0) EXCEPT !.total_probes = 1]
        removed_a == Blocked_try_remove(self, bl.a, key)
        probed_b == [update EXCEPT !.total_probes = @ + 1]
        removed_b == Blocked_try_remove(self, bl.b, key)
    IN  IF bl.panic THEN Ret(self, update, TRUE)
        ELSE IF removed_a.some
        THEN Ret([removed_a.self EXCEPT !.len = @ - 1],
                 [update EXCEPT !.total_writes = @ + 1], FALSE)
        ELSE IF removed_b.some
        THEN Ret([removed_b.self EXCEPT !.len = @ - 1],
                 [probed_b EXCEPT !.total_writes = @ + 1], FALSE)
        ELSE Ret(self, [probed_b EXCEPT !.completed = FALSE], FALSE)

\* The rows of a BlockedCuckoo (five hashers); the block index is the hash
\* modulo the number of blocks.
BlockedRows ==
    << Row(<<0, 1, 0, 0, 0>>),      \* blocks 0, 1
       Row(<<2, 0, 0, 1, 0>>),      \* blocks 0, 1 after two rehashes
       Row(<<1, 0, 0, 0, 0>>),      \* blocks 1, 0
       Row(<<3, 1, 1, 1, 1>>) >>    \* every hasher gives block 1

\* the struct a BlockedCuckoo operation works on
BlockedSelf == [blocks |-> buckets, len |-> len]

\* some slot of some block holds the key
BlockedStored(blocks, key) ==
    \E b \in DOMAIN blocks : \E i \in DOMAIN blocks[b] : blocks[b][i] = key

\* the effect of a BlockedCuckoo call that returned r
BlockedCommit(op, key, r, new_live) ==
    /\ status' = IF r.panic THEN "panic" ELSE "ok"
    /\ buckets' = IF r.panic THEN buckets ELSE r.self.blocks
    /\ len' = IF r.panic THEN len ELSE r.self.len
    /\ live' = IF r.panic THEN live ELSE new_live
    /\ degraded' = (degraded \/ (op = "insert" /\ ~r.panic /\ ~r.update.completed))
    /\ last' = Called(op, key, BlockedStored(buckets, key), r.update.completed)
    /\ UNCHANGED <<hashers, meta>>

BlockedInit ==
    /\ hashers \in Hashers(BlockedRows, Blocked_HASHER_COUNT)
    /\ \E n_blocks \in {BlockedBlocks, BlockedMoreBlocks} :
        LET new == BlockedCuckoo_new(n_blocks * BUCKET_PER_BLOCK)
        IN  buckets = new.blocks /\ len = new.len
    /\ meta = MetaMap_new(0, 0)
    /\ live = {}
    /\ last = NoCall
    /\ degraded = FALSE
    /\ status = "ok"

BlockedProbe(key) ==
    /\ status = "ok"
    /\ Observe(key, Blocked_probe(BlockedSelf, key))

BlockedInsert(key) ==
    /\ status = "ok"
    /\ len < BlockedMaxLen
    /\ \E r \in Blocked_insert(BlockedSelf, key) :
            BlockedCommit("insert", key, r, live \cup {key})

BlockedRemove(key) ==
    /\ status = "ok"
    /\ BlockedCommit("remove", key, Blocked_remove(BlockedSelf, key), live \ {key})

BlockedNext ==
    \E key \in Keys : BlockedProbe(key) \/ BlockedInsert(key) \/ BlockedRemove(key)

SpecBlocked == BlockedInit /\ [][BlockedNext]_vars

(***************************************************************************)
(* RobinHood (robinhood.rs): robin-hood hashing with backward-shift        *)
(* deletion and a MetaMap of META_BITS bits per bucket.                    *)
(***************************************************************************)
META_BITS == 1

RobinHood_new(capacity) ==
    [buckets |-> [b \in 0..(capacity - 1) |-> None],
     meta |-> MetaMap_new(capacity, META_BITS),
     len |-> 0]

RobinHood_capacity(self) == Cardinality(DOMAIN self.buckets)

bucket_for(self, key) == hash_one(0, key) % RobinHood_capacity(self)

psl_of(self, key, bucket) ==
    LET home == bucket_for(self, key)
    IN  1 + (IF bucket < home
             THEN (bucket + RobinHood_capacity(self)) - home
             ELSE bucket - home)

RobinHood_set_bucket(self, bucket, key, psl) ==
    [self EXCEPT !.buckets[bucket] = key,
                 !.meta = set_full(self.meta, bucket, Psl(psl))]

RobinHood_clear_bucket(self, bucket) ==
    [self EXCEPT !.buckets[bucket] = None,
                 !.meta = set_empty(self.meta, bucket)]

RobinHood_Probe(contained, probes) == [panic |-> FALSE, contained |-> contained, probes |-> probes]

\* a probe loop that gives up at a key whose probe sequence length equals psl
RECURSIVE RobinHood_probe_loop_strict(_, _, _, _, _)
RobinHood_probe_loop_strict(self, key, psl, probes, bucket) ==
    LET hint == hint_psl(self.meta, bucket)
        next == (bucket + 1) % RobinHood_capacity(self)
        k == self.buckets[bucket]
    IN  IF hint.kind = "None" THEN RobinHood_Probe(FALSE, probes)
        ELSE IF hint.kind = "Exact" /\ hint.v < psl THEN RobinHood_Probe(FALSE, probes)
        ELSE IF hint.v > psl
        THEN RobinHood_probe_loop_strict(self, key, psl + 1, probes, next)
        ELSE IF k = None THEN RobinHood_Probe(FALSE, probes + 1)
        ELSE IF k = key THEN RobinHood_Probe(TRUE, probes + 1)
        ELSE IF psl_of(self, k, bucket) <= psl THEN RobinHood_Probe(FALSE, probes + 1)
        ELSE RobinHood_probe_loop_strict(self, key, psl + 1, probes + 1, next)

\* the loop of probe, entered with psl, probes and bucket
RECURSIVE RobinHood_probe_loop(_, _, _, _, _)
RobinHood_probe_loop(self, key, psl, probes, bucket) ==
    LET hint == hint_psl(self.meta, bucket)
        next == (bucket + 1) % RobinHood_capacity(self)
        k == self.buckets[bucket]
    IN  IF hint.kind = "None" THEN RobinHood_Probe(FALSE, probes)
        ELSE IF hint.kind = "Exact" /\ hint.v < psl THEN RobinHood_Probe(FALSE, probes)
        ELSE IF hint.v > psl
        THEN RobinHood_probe_loop(self, key, psl + 1, probes, next)
        ELSE IF k = None THEN RobinHood_Probe(FALSE, probes + 1)
        ELSE IF k = key THEN RobinHood_Probe(TRUE, probes + 1)
        ELSE IF psl_of(self, k, bucket) < psl THEN RobinHood_Probe(FALSE, probes + 1)
        ELSE RobinHood_probe_loop(self, key, psl + 1, probes + 1, next)

RobinHood_probe(self, key) ==
    RobinHood_probe_loop(self, key, 1, 0, bucket_for(self, key))

\* the variables of the loop of insert
RobinHoodChain(self, key, home_bucket, active_key, psl, update) ==
    [self |-> self, key |-> key, home_bucket |-> home_bucket,
     active_key |-> active_key, psl |-> psl, update |-> update, done |-> FALSE]

\* one pass through the loop body of insert
RobinHood_insert_step(st) ==
    LET self == st.self
        bucket == (st.home_bucket + st.psl - 1) % RobinHood_capacity(self)
        hint == hint_psl(self.meta, bucket)
        probed == [st.update EXCEPT !.total_probes = @ + 1]
        contained_key == self.buckets[bucket]
        contained_home == bucket_for(self, contained_key)
        contained_psl == psl_of(self, contained_key, bucket)
    IN  IF hint.kind = "None"
        THEN [st EXCEPT !.self = RobinHood_set_bucket(self, bucket, st.active_key, st.psl),
                        !.done = TRUE]
        ELSE IF hint.v >= st.psl THEN [st EXCEPT !.psl = @ + 1]
        ELSE IF contained_key = None
        THEN [st EXCEPT !.self = RobinHood_set_bucket(self, bucket, st.active_key, st.psl),
                        !.update = probed, !.done = TRUE]
        ELSE IF contained_key = st.active_key
        THEN [st EXCEPT !.self.len = IF st.active_key = st.key THEN @ - 1 ELSE @,
                        !.update = probed, !.done = TRUE]
        ELSE IF contained_psl < st.psl
        THEN [st EXCEPT !.self = RobinHood_set_bucket(self, bucket, st.active_key, st.psl),
                        !.home_bucket = contained_home,
                        !.active_key = contained_key,
                        !.psl = contained_psl + 1,
                        !.update = [probed EXCEPT !.total_writes = @ + 1]]
        ELSE [st EXCEPT !.psl = @ + 1, !.update = probed]

\* what the next pass of the loop depends on
RobinHoodLoopState(st) ==
    [self |-> st.self, home_bucket |-> st.home_bucket,
     active_key |-> st.active_key, psl |-> st.psl]

\* The loop of insert has no bound.  It is run until it returns or comes
\* back to a loop state it was in before, from which it never returns.
RECURSIVE RobinHood_insert_loop(_, _)
RobinHood_insert_loop(st, seen) ==
    IF st.done THEN [status |-> "ok", self |-> st.self, update |-> st.update]
    ELSE IF RobinHoodLoopState(st) \in seen
    THEN [status |-> "hang", self |-> st.self, update |-> st.update]
    ELSE RobinHood_insert_loop(RobinHood_insert_step(st),
                               seen \cup {RobinHoodLoopState(st)})

RobinHood_insert(self, key) ==
    RobinHood_insert_loop(
        RobinHoodChain([self EXCEPT !.len = @ + 1], key, bucket_for(self, key),
                       key, 1, [total_probes |-> 0, total_writes |-> 1, completed |-> TRUE]),
        {})

\* the shift loop of remove, entered with bucket
RECURSIVE RobinHood_shift_loop(_, _, _)
RobinHood_shift_loop(self, update, bucket) ==
    LET next_bucket == (bucket + 1) % RobinHood_capacity(self)
        k == self.buckets[next_bucket]
        probed == [update EXCEPT !.total_probes = @ + 1]
        shift_psl == psl_of(self, k, next_bucket)
    IN  IF hint_psl(self.meta, next_bucket) = Exact(1)
        THEN [status |-> "ok", self |-> self, update |-> update]
        ELSE IF k = None \/ shift_psl = 1
        THEN [status |-> "ok", self |-> self, update |-> probed]
        ELSE RobinHood_shift_loop(
                RobinHood_set_bucket(self, bucket, k, shift_psl - 1),
                [probed EXCEPT !.total_writes = @ + 1],
                next_bucket)

\* usize subtraction: the overflow check of a debug build panics, a release
\* build wraps
usize_sub_one(n) == IF n > 0 THEN {n - 1} ELSE {-1, Pow2(HashWidth) - 1}

\* the returns remove may make
RobinHood_remove(self, key) ==
    LET probe == RobinHood_probe(self, key)
        update == [total_probes |-> probe.probes, total_writes |-> 0, completed |-> TRUE]
        bucket == (bucket_for(self, key) + probe.probes - 1) % RobinHood_capacity(self)
    IN  IF ~probe.contained THEN {[status |-> "ok", self |-> self, update |-> update]}
        ELSE { IF n = -1
               THEN [status |-> "panic", self |-> self, update |-> update]
               ELSE RobinHood_shift_loop(
                        RobinHood_clear_bucket([self EXCEPT !.len = n], bucket),
                        [update EXCEPT !.total_writes = @ + 1],
                        bucket)
               : n \in usize_sub_one(self.len) }

\* the rows of a RobinHood (one hasher): the home bucket is the hash modulo
\* the capacity
RobinHoodRows == << Row(<<0>>), Row(<<1>>), Row(<<2>>), Row(<<7>>) >>

\* The effect of a RobinHood call that returned r, or did not return.  The
\* variable degraded records that insert was called on a table with no empty
\* bucket.
RobinHoodCommit(op, key, r, new_live) ==
    /\ status' = r.status
    /\ buckets' = IF r.status = "ok" THEN r.self.buckets ELSE buckets
    /\ meta' = IF r.status = "ok" THEN r.self.meta ELSE meta
    /\ len' = IF r.status = "ok" THEN r.self.len ELSE len
    /\ live' = IF r.status = "ok" THEN new_live ELSE live
    /\ degraded' = (degraded \/ (op = "insert" /\ ~Stored(buckets, None)))
    /\ last' = Called(op, key, Stored(buckets, key), r.update.completed)
    /\ UNCHANGED hashers

RobinHoodInit ==
    /\ hashers \in Hashers(RobinHoodRows, 1)
    /\ \E capacity \in {SmallCapacity, Capacity} : Constructed(RobinHood_new(capacity))

RobinHoodProbe(key) ==
    /\ status = "ok"
    /\ Observe(key, RobinHood_probe(Self, key))

RobinHoodInsert(key) ==
    /\ status = "ok"
    /\ len < MaxLen
    /\ RobinHoodCommit("insert", key, RobinHood_insert(Self, key), live \cup {key})

\* once len has wrapped the run is followed no further than probes
RobinHoodRemove(key) ==
    /\ status = "ok"
    /\ len <= MaxLen
    /\ \E r \in RobinHood_remove(Self, key) :
            RobinHoodCommit("remove", key, r, live \ {key})

RobinHoodNext ==
    \E key \in Keys : RobinHoodProbe(key) \/ RobinHoodInsert(key) \/ RobinHoodRemove(key)

SpecRobinHood == RobinHoodInit /\ [][RobinHoodNext]_vars

(***************************************************************************)
(* The claims of the specification.                                        *)
(***************************************************************************)

\* the buckets that hold the key
Copies(bs, key) == {b \in DOMAIN bs : bs[b] = key}

\* C1: Cuckoo::remove(k) of a stored key k decreases len by one.
C1_RemoveDecrementsLen ==
    [][\A key \in Keys :
        (Stored(buckets, key) /\ status' = "ok" /\ CuckooRemove(key))
            => len' = len - 1]_vars

\* C2: ThreeAryCuckoo::insert(k), when k is already stored in one of its
\* buckets, leaves len and the buckets unchanged and returns completed = true,
\* so that k is never stored twice.
C2_InsertStoredUnchanged ==
    [][\A key \in Keys :
        (Stored(buckets, key) /\ status' = "ok" /\ ThreeAryInsert(key))
            => /\ buckets' = buckets
               /\ len' = len
               /\ last'.completed
               /\ Cardinality(Copies(buckets', key)) = 1]_vars

\* C3: TriaProb::insert(k), when k is already stored, leaves len unchanged.
C3_InsertStoredKeepsLen ==
    [][\A key \in Keys :
        (Stored(buckets, Value(key)) /\ status' = "ok" /\ TriaProbInsert(key))
            => len' = len]_vars

\* C4: a TriaProb never stores Value(k) in more than one bucket.
C4_AtMostOneCopy ==
    \A key \in Keys : Cardinality(Copies(buckets, Value(key))) <= 1

\* C5: RobinHood::insert(k) (robinhood.rs), when k is already stored, at any
\* probe sequence length, leaves the buckets and len unchanged.
C5_InsertStoredUnchanged ==
    [][\A key \in Keys :
        (Stored(buckets, key) /\ status' = "ok" /\ RobinHoodInsert(key))
            => (buckets' = buckets /\ len' = len)]_vars

\* C6: BlockedCuckoo::insert(k), when k is already stored in one of its two
\* blocks, stores no second copy of k and leaves len unchanged.
C6_InsertStoredUnchanged ==
    [][\A key \in Keys :
        (BlockedStored(buckets, key) /\ status' = "ok" /\ BlockedInsert(key))
            => (buckets' = buckets /\ len' = len)]_vars

\* C7: Cuckoo::insert(k), when k is already stored in its bucket A or B,
\* leaves len and the buckets unchanged and returns completed = true, at
\* every metadata width.
C7_InsertStoredUnchanged ==
    [][\A key \in Keys :
        (Stored(buckets, key) /\ CuckooInsert(key))
            => /\ buckets' = buckets
               /\ meta' = meta
               /\ len' = len
               /\ last'.completed
               /\ status' = "ok"]_vars

\* C7 happens: a key held by its bucket B has been inserted again, under
\* three bits of fingerprint
C7_Reinserted ==
    /\ status = "ok"
    /\ last.op = "insert"
    /\ last.present
    /\ meta.bits = 4
    /\ buckets[Cuckoo_buckets(last.key).b] = last.key

\* C8: after RobinHood::remove(k) has returned, probe(k) reports
\* contained = false.
C8_RemovedNotContained ==
    (status = "ok" /\ last.op = "remove")
        => ~RobinHood_probe(Self, last.key).contained

\* C9: in a Cuckoo on which every insert has completed, probe(k) reports
\* contained exactly for the keys of the reference set and makes at most two
\* probes.
C9_ProbeAgreesWithReference ==
    (status = "ok" /\ ~degraded)
        => \A key \in Keys :
            LET probe == Cuckoo_probe(Self, key)
            IN  /\ ~probe.panic => (probe.contained <=> key \in live)
                /\ ~probe.panic => probe.probes <= 2

\* C9 happens: after a remove of a stored key, a key of the reference set is
\* found in its bucket B with two probes and a key outside it is looked for
\* with two probes
C9_FoundInBucketB ==
    /\ status = "ok"
    /\ ~degraded
    /\ last.op = "remove"
    /\ last.present
    /\ \E key \in live :
            /\ buckets[Cuckoo_buckets(key).b] = key
            /\ Cuckoo_probe(Self, key).probes = 2
    /\ \E key \in Keys \ live :
            /\ ~Cuckoo_buckets(key).panic
            /\ Cuckoo_probe(Self, key).probes = 2

\* C10: in a RobinHood on which insert was never called with no bucket
\* empty, every key inserted and not removed is found by probe.
C10_LiveKeysFound ==
    (status = "ok" /\ ~degraded)
        => \A key \in live : RobinHood_probe(Self, key).contained

\* C10 happens: after a remove that shifted keys backward, a key of the
\* reference set is found two buckets past its home
C10_FoundAfterShift ==
    /\ status = "ok"
    /\ ~degraded
    /\ last.op = "remove"
    /\ last.present
    /\ \E key \in Keys : Cardinality(Copies(buckets, key)) > 1
    /\ \E key \in live : RobinHood_probe(Self, key).probes >= 3

\* position i of the triangular sequence of the key: the bucket_index of pass i
\* of the loops of probe_search and probe_insert
TriaProb_sequence(key, i) ==
    ((hash_one(0, key) % TriaProb_capacity(Self)) + ((i * (i + 1)) \div 2))
        % TriaProb_capacity(Self)

\* C11: in a TriaProb, no position before a bucket holding Value(k) on the
\* triangular sequence of k holds Empty, and probe(k) reports contained = true
\* for every key inserted and not removed since.
C11_NoEmptyBeforeValue ==
    status = "ok"
        => /\ \A key \in Keys : \A i \in 0..(TriaProb_capacity(Self) - 1) :
                buckets[TriaProb_sequence(key, i)] = Value(key)
                    => \A j \in 0..(i - 1) : buckets[TriaProb_sequence(key, j)] # Empty
           /\ \A key \in live :
                LET probe == TriaProb_probe(Self, key)
                IN  ~probe.panic /\ probe.contained

\* C11 happens: a key of the reference set sits at the third position of its
\* sequence or later, behind a Tombstone, in a map with fingerprints
C11_ValueBehindTombstone ==
    /\ status = "ok"
    /\ meta.bits = 4
    /\ \E key \in live : \E i \in 2..(TriaProb_capacity(Self) - 1) :
            /\ buckets[TriaProb_sequence(key, i)] = Value(key)
            /\ \E j \in 0..(i - 1) : buckets[TriaProb_sequence(key, j)] = Tombstone

(***************************************************************************)
(* The cuckoo engines behind one interface: a Cuckoo or a ThreeAryCuckoo,  *)
(* told apart by the number of hashers it was constructed with.            *)
(***************************************************************************)
HasherCount == Cardinality(DOMAIN hashers)

CuckooFamilyInit == CuckooInit \/ ThreeAryInit

CuckooFamilyNext ==
    \/ HasherCount = Cuckoo_HASHER_COUNT /\ CuckooNext
    \/ HasherCount = ThreeAry_HASHER_COUNT /\ ThreeAryNext

SpecCuckooFamily == CuckooFamilyInit /\ [][CuckooFamilyNext]_vars

\* the loop variables without the counters of the Update record, which the
\* loop body writes and never reads
Unmeasured(st) == [st EXCEPT !.update = NewUpdate(1)]

\* the loop variables Cuckoo::insert enters its loop with, if it does
Cuckoo_insert_entry(self, key) ==
    LET key_info == Cuckoo_buckets(key)
        read_b == ~hint_not_match(self.meta, key_info.b, key_info.hash)
    IN  IF key_info.panic \/ (read_b /\ self.buckets[key_info.b] = key) THEN {}
        ELSE {ChainState([self EXCEPT !.len = @ + 1], key, key, TRUE, key_info,
                         NewUpdate(1))}

\* the loop variables after up to n passes of the loop of Cuckoo::insert
RECURSIVE Cuckoo_insert_reach(_, _, _)
Cuckoo_insert_reach(frontier, seen, n) ==
    LET next == {Unmeasured(Cuckoo_insert_step(st)) : st \in {f \in frontier : ~f.done}}
                    \ seen
    IN  IF n = 0 \/ next = {} THEN seen
        ELSE Cuckoo_insert_reach(next, seen \cup next, n - 1)

\* the loop variables ThreeAryCuckoo::insert enters its loop with, if it does
ThreeAry_insert_entry(self, key) ==
    LET key_info == ThreeAry_buckets(key)
        f == ThreeAry_find(self, key, key_info, ThreeAry_insert_reads(key_info), 0, 0)
    IN  IF key_info.panic \/ f.at < 3 THEN {}
        ELSE {ChainState([self EXCEPT !.len = @ + 1], key, key,
                         [i \in 0..2 |-> TRUE], key_info, NewUpdate(1))}

\* the loop variables after up to n passes of the loop of ThreeAryCuckoo::insert
RECURSIVE ThreeAry_insert_reach(_, _, _)
ThreeAry_insert_reach(frontier, seen, n) ==
    LET next == UNION {{Unmeasured(t) : t \in ThreeAry_insert_step(st)} :
                            st \in {f \in frontier : ~f.done}} \ seen
    IN  IF n = 0 \/ next = {} THEN seen
        ELSE ThreeAry_insert_reach(next, seen \cup next, n - 1)

\* every occupied bucket holds a key that has the bucket among buckets(key)
Cuckoo_placed(bs) ==
    \A b \in DOMAIN bs :
        bs[b] # None => LET info == Cuckoo_buckets(bs[b])
                        IN  ~info.panic /\ b \in {info.a, info.b}

ThreeAry_placed(bs) ==
    \A b \in DOMAIN bs :
        bs[b] # None => LET info == ThreeAry_buckets(bs[b])
                        IN  ~info.panic /\ \E i \in 0..2 : info.b[i] = b

\* the states insert(key) passes through in its loop, a panicked pass excepted
Cuckoo_insert_passes(self, key) ==
    LET entry == Cuckoo_insert_entry(self, key)
    IN  {st \in Cuckoo_insert_reach(entry, entry, MAX_CHAIN) : ~st.panic}

ThreeAry_insert_passes(self, key) ==
    LET entry == ThreeAry_insert_entry(self, key)
    IN  {st \in ThreeAry_insert_reach(entry, entry, MAX_CHAIN) : ~st.panic}

\* C12: in a Cuckoo and in a ThreeAryCuckoo every occupied bucket holds a key
\* that has this bucket among its alternatives, in every state between calls
\* and after every pass of the eviction loop of insert.
C12_KeysInTheirBuckets ==
    status = "ok"
        => IF HasherCount = Cuckoo_HASHER_COUNT
           THEN /\ Cuckoo_placed(buckets)
                /\ \A key \in Keys : \A st \in Cuckoo_insert_passes(Self, key) :
                        Cuckoo_placed(st.self.buckets)
           ELSE /\ ThreeAry_placed(buckets)
                /\ \A key \in Keys : \A st \in ThreeAry_insert_passes(Self, key) :
                        ThreeAry_placed(st.self.buckets)

\* C12 happens: an insert into a Cuckoo has returned completed = false, and
\* some insert would pass through a state with an evicted key in hand
C12_AfterFailedChain ==
    /\ status = "ok"
    /\ HasherCount = Cuckoo_HASHER_COUNT
    /\ last.op = "insert"
    /\ ~last.completed
    /\ \E key \in Keys : \E st \in Cuckoo_insert_passes(Self, key) :
            ~st.done /\ st.active_key # key

\* C13: in a RobinHood, between calls, the probe sequence length of an
\* occupied bucket exceeds the one of its occupied predecessor on the ring by
\* at most 1.
C13_PslGrowsByOne ==
    status = "ok"
        => \A b \in DOMAIN buckets :
            LET next == (b + 1) % RobinHood_capacity(Self)
            IN  (buckets[b] # None /\ buckets[next] # None)
                    => psl_of(Self, buckets[next], next) <= psl_of(Self, buckets[b], b) + 1

\* C14: len() <= capacity() in every state of a RobinHood, and no call
\* subtracts from a len of zero (which panics or wraps).
C14_LenWithinCapacity ==
    /\ status # "panic"
    /\ len \in 0..RobinHood_capacity(Self)

\* C15: BlockedCuckoo::remove(k) of a key that is not stored returns
\* completed = true and total_writes = 0 and leaves the blocks and len
\* unchanged.
C15_RemoveAbsentIsNoOp ==
    [][\A key \in Keys :
        (~BlockedStored(buckets, key) /\ status' = "ok" /\ BlockedRemove(key))
            => /\ last'.completed
               /\ Blocked_remove(BlockedSelf, key).update.total_writes = 0
               /\ buckets' = buckets
               /\ len' = len]_vars

\* the keys held by the buckets
Cuckoo_keys(bs) == {bs[b] : b \in DOMAIN bs} \ {None}

\* C16: when Cuckoo::insert(k) returns completed = false it has made MAX_CHAIN
\* evictions, the stored keys are the ones stored before and k less exactly
\* one key, no key is stored twice and every stored key is in one of its two
\* buckets.
C16_FailedChainLosesOneKey ==
    [][\A key \in Keys :
        (last'.op = "insert" /\ last'.key = key /\ ~last'.completed
            /\ status' = "ok" /\ CuckooInsert(key))
            => /\ Cuckoo_insert(Self, key).update.total_writes = MAX_CHAIN + 1
               /\ \E lost \in Cuckoo_keys(buckets) \cup {key} :
                    Cuckoo_keys(buckets') = (Cuckoo_keys(buckets) \cup {key}) \ {lost}
               /\ \A k \in Keys : Cardinality(Copies(buckets', k)) <= 1
               /\ Cuckoo_placed(buckets')]_vars

\* C16 happens: an insert has returned completed = false and left its key in
\* the buckets, under one bit of fingerprint
C16_ChainGaveUp ==
    /\ status = "ok"
    /\ last.op = "insert"
    /\ ~last.completed
    /\ Stored(buckets, last.key)
    /\ meta.bits = 2

\* C17: every call of insert on a RobinHood returns.
C17_InsertReturns == status # "hang"

\* C18: Cuckoo::buckets returns two distinct bucket indices below the
\* capacity for every key and never indexes past the hashers, so that no call
\* of probe, insert or remove panics.
C18_BucketsNeverAbort ==
    /\ status # "panic"
    /\ \A key \in Keys :
        LET info == Cuckoo_buckets(key)
        IN  /\ ~info.panic
            /\ info.a # info.b
            /\ {info.a, info.b} \subseteq DOMAIN buckets

(***************************************************************************)
(* A MetaMap driven on its own (meta_map.rs): new(MetaBuckets, B) followed *)
(* by any sequence of set_full, set_empty and set_tombstone.  Here buckets *)
(* records, for every bucket, the last state-setting call made on it, and  *)
(* last records the last call, with present telling whether the bucket was *)
(* written since its last set_empty.                                       *)
(***************************************************************************)
NeverSet == [call |-> "new", metadata |-> Hash(0)]
SetCall(call, metadata) == [call |-> call, metadata |-> metadata]

\* the payloads handed to set_full: hashes whose leading bits are all zero,
\* mixed and all one, and probe sequence lengths below and above saturation
Metadatas ==
    {Hash(h) : h \in {0, 1, Pow2(HashWidth - 1), Pow2(HashWidth) - 2, Pow2(HashWidth) - 1}}
        \cup {Psl(p) : p \in (1..MaxPsl) \cup {Pow2(HashWidth - 1), Pow2(HashWidth - 1) + 1}}
        \cup {Psl(p) : p \in {Pow2(w - 1) - 1 : w \in MetaWidths \ {0, 1}}
                                \cup {Pow2(w - 1) : w \in MetaWidths \ {0, 1}}
                                \cup {Pow2(HashWidth + 2)}}

MetaMapInit ==
    /\ hashers = << >>
    /\ \E bits_per_bucket \in MetaWidths : meta = MetaMap_new(MetaBuckets, bits_per_bucket)
    /\ buckets = [b \in 0..(MetaBuckets - 1) |-> NeverSet]
    /\ len = 0
    /\ live = {}
    /\ last = NoCall
    /\ degraded = FALSE
    /\ status = "ok"

MetaMapCommit(call, bucket, metadata, new_meta) ==
    /\ meta' = new_meta
    /\ buckets' = [buckets EXCEPT ![bucket] = SetCall(call, metadata)]
    /\ last' = Called(call, bucket, buckets[bucket].call \in {"set_full", "set_tombstone"}, TRUE)
    /\ UNCHANGED <<hashers, len, live, degraded, status>>

MetaMapSetFull(bucket, metadata) ==
    MetaMapCommit("set_full", bucket, metadata, set_full(meta, bucket, metadata))

MetaMapSetEmpty(bucket) ==
    MetaMapCommit("set_empty", bucket, Hash(0), set_empty(meta, bucket))

MetaMapSetTombstone(bucket) ==
    MetaMapCommit("set_tombstone", bucket, Hash(0), set_tombstone(meta, bucket))

MetaMapNext ==
    \E bucket \in 0..(MetaBuckets - 1) :
        \/ \E metadata \in Metadatas : MetaMapSetFull(bucket, metadata)
        \/ MetaMapSetEmpty(bucket)
        \/ MetaMapSetTombstone(bucket)

SpecMetaMap == MetaMapInit /\ [][MetaMapNext]_vars

\* C19 (as the code has it): in a MetaMap of width 1, 2, 4 or 8, a bucket
\* whose last state-setting call was set_empty has hint_empty true, whatever
\* it held before; in a MetaMap of width 0 hint_empty is false for every
\* bucket.
C19_EmptyHintAfterSetEmpty ==
    \A b \in DOMAIN buckets :
        /\ (meta.bits >= 1 /\ buckets[b].call = "set_empty") => hint_empty(meta, b)
        /\ meta.bits = 0 => ~hint_empty(meta, b)

\* C19 witness: set_empty has just been called on a bucket of a MetaMap of
\* width 4 that held a payload or a tombstone, while another bucket is full.
C19_ClearedWrittenBucket ==
    /\ meta.bits = 4
    /\ last.op = "set_empty"
    /\ last.present
    /\ \E b \in DOMAIN buckets : buckets[b].call = "set_full"

\* C19 (as the spec has it): in a MetaMap of every width, a bucket whose last
\* state-setting call was set_empty has hint_empty true.
C19_EmptyHintAtEveryWidth ==
    \A b \in DOMAIN buckets :
        buckets[b].call = "set_empty" => hint_empty(meta, b)

\* C20: in a MetaMap of every width, hint_psl of a bucket is None exactly
\* when the bucket was never set or its last state-setting call was
\* set_empty; in particular it is not None after set_full.
C20_PslHintNoneIffEmpty ==
    \A b \in DOMAIN buckets :
        (hint_psl(meta, b) = NoHint) <=> (buckets[b].call \in {"new", "set_empty"})

\* the probe sequence length p satisfies the hint
Satisfies(p, hint) ==
    \/ hint.kind = "Exact" /\ hint.v = p
    \/ hint.kind = "AtLeast" /\ p >= hint.v

\* C21: in a MetaMap of width B in {2, 4, 8}, a bucket last written by
\* set_full(b, Psl(p)) has hint_psl Exact(p) when p < 2^(B-1) and
\* AtLeast(2^(B-1)) otherwise, and p satisfies the hint.
C21_PslHintClampsAtSaturation ==
    meta.bits >= 2
        => \A b \in DOMAIN buckets :
            (buckets[b].call = "set_full" /\ buckets[b].metadata.kind = "Psl")
                => LET p == buckets[b].metadata.v
                       saturated == Pow2(meta.bits - 1)
                   IN  /\ hint_psl(meta, b) = IF p < saturated THEN Exact(p) ELSE AtLeast(saturated)
                       /\ Satisfies(p, hint_psl(meta, b))

\* C21 witness: in a MetaMap of width 4 one bucket was last written with
\* Psl(3) and hints Exact(3) while the other was last written with a probe
\* sequence length of 2^(HashWidth+2) and hints AtLeast(8).
C21_ExactAndSaturated ==
    /\ meta.bits = 4
    /\ \E b \in DOMAIN buckets :
        buckets[b] = SetCall("set_full", Psl(3)) /\ hint_psl(meta, b) = Exact(3)
    /\ \E b \in DOMAIN buckets :
        buckets[b] = SetCall("set_full", Psl(Pow2(HashWidth + 2))) /\ hint_psl(meta, b) = AtLeast(8)

\* C22: the total_writes a Cuckoo insert returns is the number of set_bucket
\* calls it performed, whatever the length of its chain.
C22_WritesCounted ==
    status = "ok"
        => \A key \in Keys :
            LET r == Cuckoo_insert(Self, key)
            IN  ~r.panic => r.update.total_writes = r.update.bucket_writes

\* C23: the telemetry of TriaProb is exact: the probes of probe and the
\* total_probes of insert and remove are the number of buckets the call read,
\* and the total_writes of insert and remove is the number of buckets the
\* call wrote.
C23_TelemetryExact ==
    status = "ok"
        => \A key \in Keys :
            LET p == TriaProb_probe(Self, key)
                i == TriaProb_insert(Self, key)
                r == TriaProb_remove(Self, key)
            IN  /\ ~p.panic => p.probes = p.reads
                /\ ~i.panic => /\ i.update.total_probes = i.update.bucket_reads
                               /\ i.update.total_writes = i.update.bucket_writes
                /\ ~r.panic => /\ r.update.total_probes = r.update.bucket_reads
                               /\ r.update.total_writes = r.update.bucket_writes

\* The Cuckoo built with meta_bits = 0 over the same hashers: its MetaMap
\* has no bits and no call changes it.
Cuckoo_meta_bits_0(self) == [self EXCEPT !.meta = MetaMap_new(Capacity, 0)]

\* the two calls return the same struct fields and the same flag, and the
\* call at meta_bits = 0 reads at least as many buckets
SameOutcome(r, r0) ==
    /\ r.panic = r0.panic
    /\ ~r.panic => /\ r.self.buckets = r0.self.buckets
                   /\ r.self.len = r0.self.len
                   /\ r.update.completed = r0.update.completed
                   /\ r0.update.total_probes >= r.update.total_probes

\* C24: a Cuckoo of any width and the Cuckoo of width 0 with the same hashers,
\* bucket array and len answer every probe, insert and remove alike: the same
\* contained, the same completed, the same bucket array and len afterwards,
\* and at least as many probes at width 0.  Both start from new() with equal
\* bucket arrays, so they stay equal along every sequence of calls.
C24_WidthChangesOnlyProbes ==
    status = "ok"
        => \A key \in Keys :
            /\ LET p == Cuckoo_probe(Self, key)
                   p0 == Cuckoo_probe(Cuckoo_meta_bits_0(Self), key)
               IN  /\ p.panic = p0.panic
                   /\ p.contained = p0.contained
                   /\ p0.probes >= p.probes
            /\ SameOutcome(Cuckoo_insert(Self, key),
                           Cuckoo_insert(Cuckoo_meta_bits_0(Self), key))
            /\ SameOutcome(Cuckoo_remove(Self, key),
                           Cuckoo_remove(Cuckoo_meta_bits_0(Self), key))

\* C24 witness: a Cuckoo of width 8 holds two keys, and a key that is not
\* stored is probed without a bucket read while width 0 reads two buckets.
C24_FewerProbesAtWidth8 ==
    /\ status = "ok"
    /\ meta.bits = 8
    /\ Cardinality({b \in DOMAIN buckets : buckets[b] # None}) >= 2
    /\ \E key \in Keys :
        /\ ~Stored(buckets, key)
        /\ ~Cuckoo_probe(Self, key).panic
        /\ Cuckoo_probe(Self, key).probes = 0
        /\ Cuckoo_probe(Cuckoo_meta_bits_0(Self), key).probes = 2

\* C25: after every remove of a RobinHood no key occupies two buckets and
\* the number of occupied buckets is len().
C25_ShiftClearsSource ==
    (status = "ok" /\ last.op = "remove")
        => /\ \A key \in Keys : Cardinality({b \in DOMAIN buckets : buckets[b] = key}) <= 1
           /\ Cardinality({b \in DOMAIN buckets : buckets[b] # None}) = len

\* the metadata of self agrees with its bucket array: hint_empty holds only
\* for a bucket that is None (for every bucket that is None when there are
\* metadata bits), and the fingerprint of an occupied bucket matches the
\* first hash of its key
MetaConsistent(self) ==
    \A b \in DOMAIN self.buckets :
        /\ hint_empty(self.meta, b) => self.buckets[b] = None
        /\ (self.meta.bits >= 1 /\ self.buckets[b] = None) => hint_empty(self.meta, b)
        /\ self.buckets[b] # None
                => ~hint_not_match(self.meta, b, hash_one(0, self.buckets[b]))

\* the passes of ThreeAryCuckoo::insert(key) that go on to evict: no bucket
\* in use took the active key
ThreeAry_evicting_passes(self, key) ==
    {st \in ThreeAry_insert_passes(self, key) : ~st.done /\ ~ThreeAry_place(st, 0).done}

\* C26: in a Cuckoo and in a ThreeAryCuckoo the metadata agrees with the
\* bucket array in every state between calls and after every pass of the
\* loop of insert, and every bucket ThreeAryCuckoo::insert may pick for
\* eviction is occupied.
C26_MetaAgreesWithBuckets ==
    status = "ok"
        => /\ MetaConsistent(Self)
           /\ \A key \in Keys :
                IF HasherCount = Cuckoo_HASHER_COUNT
                THEN \A st \in Cuckoo_insert_passes(Self, key) : MetaConsistent(st.self)
                ELSE /\ \A st \in ThreeAry_insert_passes(Self, key) : MetaConsistent(st.self)
                     /\ \A st \in ThreeAry_evicting_passes(Self, key) :
                            \A evict \in 0..2 :
                                st.use[evict] => st.self.buckets[st.key_info.b[evict]] # None

\* C26 witness: a ThreeAryCuckoo with fingerprints in its metadata in which
\* some insert evicts a key.
C26_EvictionWithMetadata ==
    /\ status = "ok"
    /\ HasherCount = ThreeAry_HASHER_COUNT
    /\ meta.bits >= 2
    /\ \E key \in Keys : ThreeAry_evicting_passes(Self, key) # {}

\* C27: in a TriaProb of every width no assertion of probe_search or
\* probe_insert fails, in the calls made and in every call that could be made
\* (a bucket read is Empty only at width 0 and Tombstone only below width 2),
\* and at width 2 and above a tombstoned bucket has hint_tombstone true and
\* hint_empty false.
C27_AssertionsHold ==
    /\ status # "panic"
    /\ \A key \in Keys :
        /\ ~TriaProb_probe_search(Self, key).panic
        /\ ~TriaProb_probe_insert(Self, key).panic
    /\ \A b \in DOMAIN buckets :
        (meta.bits >= 2 /\ buckets[b] = Tombstone)
            => (hint_tombstone(meta, b) /\ ~hint_empty(meta, b))

\* C27 witness: at width 1 a stored key is found after its probe read the
\* tombstone in its home bucket, and at width 2 and above a stored key is
\* found behind the tombstone in its home bucket.
C27_ProbedPastTombstone ==
    /\ status = "ok"
    /\ meta.bits >= 1
    /\ \E key \in Keys :
        LET r == TriaProb_probe_search(Self, key)
        IN  /\ buckets[TriaProb_sequence(key, 0)] = Tombstone
            /\ r.some
            /\ meta.bits = 1 => r.reads >= 2

\* the bucket the pass of Cuckoo::insert that starts in st works on
Cuckoo_target_bucket(st) == IF st.use THEN st.key_info.a ELSE st.key_info.b

\* the pass that starts in st reaches assert_eq!(active_key, key) and fails it
Cuckoo_assert_fails(st) ==
    /\ ~hint_empty(st.self.meta, Cuckoo_target_bucket(st))
    /\ st.self.buckets[Cuckoo_target_bucket(st)] = st.active_key
    /\ st.active_key # st.key

\* C28: no key is stored in two buckets of a Cuckoo, between calls and after
\* every pass of the loop of insert, and no pass of any insert finds the
\* evicted key it carries in the bucket it moves it to (assert_eq! holds).
C28_EvictedKeyNotStored ==
    status = "ok"
        => /\ \A key \in Keys : Cardinality(Copies(buckets, key)) <= 1
           /\ \A key \in Keys : \A st \in Cuckoo_insert_passes(Self, key) :
                /\ \A k \in Keys : Cardinality(Copies(st.self.buckets, k)) <= 1
                /\ ~st.done => ~Cuckoo_assert_fails(st)

\* C28 witness: some insert carries an evicted key to a bucket that holds
\* another key.
C28_EvictedKeyEvicts ==
    /\ status = "ok"
    /\ \E key \in Keys : \E st \in Cuckoo_insert_passes(Self, key) :
        /\ ~st.done
        /\ st.active_key # key
        /\ st.self.buckets[Cuckoo_target_bucket(st)] \notin {None, st.active_key}

\* the loop variables BlockedCuckoo::insert enters its eviction loop with, if
\* it does
Blocked_insert_entry(self, key) ==
    LET counted == [self EXCEPT !.len = @ + 1]
        bl == Blocked_blocks(self, key)
    IN  IF bl.panic
           \/ Blocked_try_insert(counted, bl.a, key).ok
           \/ Blocked_try_insert(counted, bl.b, key).ok
        THEN {}
        ELSE {BlockedChain(counted, key, bl.a, NewUpdate(1))}

\* the loop variables after up to n passes of the loop of BlockedCuckoo::insert
RECURSIVE Blocked_insert_reach(_, _, _)
Blocked_insert_reach(frontier, seen, n) ==
    LET next == UNION {{Unmeasured(t) : t \in Blocked_insert_step(st)} :
                            st \in {f \in frontier : ~f.done}} \ seen
    IN  IF n = 0 \/ next = {} THEN seen
        ELSE Blocked_insert_reach(next, seen \cup next, n - 1)

Blocked_insert_passes(self, key) ==
    LET entry == Blocked_insert_entry(self, key)
    IN  Blocked_insert_reach(entry, entry, MAX_CHAIN)

\* every stored key is in one of the two blocks of blocks(key)
Blocked_placed(self) ==
    \A b \in DOMAIN self.blocks : \A i \in DOMAIN self.blocks[b] :
        self.blocks[b][i] # None
            => LET bl == Blocked_blocks(self, self.blocks[b][i])
               IN  ~bl.panic /\ b \in {bl.a, bl.b}

\* C29: every stored key of a BlockedCuckoo is in one of its two blocks,
\* between calls and after every pass of the eviction loop of insert, and
\* every slot a pass may pick for eviction is occupied.
C29_EvictedSlotOccupied ==
    status = "ok"
        => /\ Blocked_placed(BlockedSelf)
           /\ \A key \in Keys : \A st \in Blocked_insert_passes(BlockedSelf, key) :
                /\ ~st.panic => Blocked_placed(st.self)
                /\ ~st.done => \A random_index \in 0..(BUCKET_PER_BLOCK - 1) :
                                    st.self.blocks[st.target_block][random_index] # None

\* C29 witness: in a BlockedCuckoo of more than two blocks some insert evicts
\* a key, finds the other block of that key full and evicts again.
C29_SecondEviction ==
    /\ status = "ok"
    /\ Cardinality(DOMAIN buckets) = BlockedMoreBlocks
    /\ \E key \in Keys : \E st \in Blocked_insert_passes(BlockedSelf, key) :
        ~st.done /\ st.active_key # key

\* C30: in a TriaProb of capacity N, a power of two, the N positions of the
\* triangular sequence of every key are pairwise distinct, and insert of a
\* key that is not stored returns completed = false only when no bucket is
\* Empty or Tombstone.
C30_SequenceCoversTable ==
    status = "ok"
        => \A key \in Keys :
            /\ \A i, j \in 0..(TriaProb_capacity(Self) - 1) :
                    i # j => TriaProb_sequence(key, i) # TriaProb_sequence(key, j)
            /\ LET r == TriaProb_insert(Self, key)
               IN  (~Stored(buckets, key) /\ ~r.panic /\ ~r.update.completed)
                        => \A b \in DOMAIN buckets : buckets[b] \notin {Empty, Tombstone}

\* C30 witness: insert of a key that was not stored has just returned
\* completed = false, every bucket holding another key.
C30_InsertFoundNoSlot ==
    /\ status = "ok"
    /\ last.op = "insert"
    /\ ~last.present
    /\ ~last.completed
    /\ \A b \in DOMAIN buckets : buckets[b] \notin {Empty, Tombstone}

\* the bucket RobinHood::remove clears when probe returned the count probes
RobinHood_located(self, key, probes) ==
    (bucket_for(self, key) + probes - 1) % RobinHood_capacity(self)

\* C31: whenever probe(k) of a RobinHood returns contained = true, the bucket
\* (home(k) + probes - 1) mod N, the one remove(k) clears, holds k, and
\* probes is the probe sequence length of k in that bucket.
C31_ProbesLocateKey ==
    status = "ok"
        => \A key \in Keys :
            LET probe == RobinHood_probe(Self, key)
                bucket == RobinHood_located(Self, key, probe.probes)
            IN  probe.contained
                    => /\ buckets[bucket] = key
                       /\ probe.probes = psl_of(Self, key, bucket)

\* C31 witness: remove has just cleared the bucket of a stored key, and
\* probe finds another key two buckets or more after its home.
C31_FoundAwayFromHome ==
    /\ status = "ok"
    /\ last.op = "remove"
    /\ last.present
    /\ \E key \in Keys :
        LET probe == RobinHood_probe(Self, key)
        IN  probe.contained /\ probe.probes >= 2

(***************************************************************************)
(* KeySet (main.rs): KeySet::default() followed by any sequence of push    *)
(* and pop.  Here buckets holds the struct, [max, min]; live is the        *)
(* sequence of the keys push returned that are not consumed yet, oldest    *)
(* first; last records the last call, the key it returned, and for pop     *)
(* whether that key was the oldest of live.                                 *)
(***************************************************************************)
KeySet_default == [max |-> 0, min |-> 0]

KeySet_len(self) == self.max - self.min

\* push: the struct afterwards and the key returned
KeySet_push(self) ==
    [self |-> [self EXCEPT !.max = @ + 1], key |-> (self.max + 1) - 1]

\* pop: assert!(self.max > self.min), the struct afterwards and the key returned
KeySet_pop(self) ==
    [panic |-> ~(self.max > self.min),
     self |-> [self EXCEPT !.min = @ + 1],
     key |-> self.min + 1]

KeySetInit ==
    /\ buckets = KeySet_default
    /\ live = << >>
    /\ last = NoCall
    /\ status = "ok"
    /\ hashers = << >>
    /\ meta = MetaMap_new(0, 0)
    /\ len = 0
    /\ degraded = FALSE

KeySetPush ==
    /\ status = "ok"
    /\ buckets.max < MaxPush
    /\ LET r == KeySet_push(buckets)
       IN  /\ buckets' = r.self
           /\ live' = Append(live, r.key)
           /\ last' = Called("push", r.key, FALSE, TRUE)
    /\ UNCHANGED <<hashers, meta, len, degraded, status>>

KeySetPop ==
    /\ status = "ok"
    /\ LET r == KeySet_pop(buckets)
       IN  IF r.panic
           THEN status' = "panic" /\ UNCHANGED <<buckets, live, last>>
           ELSE /\ status' = "ok"
                /\ buckets' = r.self
                /\ live' = IF live = << >> THEN live ELSE Tail(live)
                /\ last' = Called("pop", r.key, live # << >> /\ Head(live) = r.key, TRUE)
    /\ UNCHANGED <<hashers, meta, len, degraded>>

KeySetNext == KeySetPush \/ KeySetPop

SpecKeySet == KeySetInit /\ [][KeySetNext]_vars

\* C32: the key a pop of a KeySet returns is the oldest key returned by push
\* and not popped yet, so the i-th pop returns the key of the i-th push.
C32_PopReturnsOldest ==
    (status = "ok" /\ last.op = "pop") => last.present

\* what the four hints of MetaMap m answer for the bucket, hint_not_match for
\* every hash
Hints(m, bucket) ==
    [empty |-> hint_empty(m, bucket),
     tombstone |-> hint_tombstone(m, bucket),
     psl |-> hint_psl(m, bucket),
     not_match |-> [raw_hash \in 0..(Pow2(HashWidth) - 1) |->
                        hint_not_match(m, bucket, raw_hash)]]

\* C33: a call of set_full, set_empty or set_tombstone on bucket b of a
\* MetaMap leaves the answers of hint_empty, hint_tombstone, hint_psl and
\* hint_not_match unchanged for every other bucket, and at width 0 for
\* every bucket (a call that leaves the whole map as it was changes no hint).
C33_OtherBucketsUnchanged ==
    [][\A bucket \in DOMAIN buckets :
            (bucket # last'.key \/ meta.bits = 0)
                => (meta' = meta \/ Hints(meta', bucket) = Hints(meta, bucket))]_vars

\* C33 witness: at width 4 bucket 1 hints Exact(3) after set_full(1, Psl(3)),
\* and set_tombstone has just been called on bucket 0, which was full.
C33_NeighbourWritten ==
    /\ meta.bits = 4
    /\ buckets[1] = SetCall("set_full", Psl(3))
    /\ hint_psl(meta, 1) = Exact(3)
    /\ last = Called("set_tombstone", 0, TRUE, TRUE)
    /\ hint_tombstone(meta, 0)

====
